---------------------------- MODULE Spec2Model ----------------------------
(***************************************************************************)
(* A state-machine model of src/unet/train.py: the Train Runner            *)
(* (train_step), the Eval Runner (eval_step) and the Training Orchestrator *)
(* (train).                                                                *)
(*                                                                         *)
(* Numbers.  A Python float is modelled as an integer number of 1e-5       *)
(* units, or as NaN.  A running sum is exact; a mean is the pair (sum,     *)
(* count); the ":.4f" format rounds that quotient to 1e-4 units.           *)
(*                                                                         *)
(* Collaborators.  The network (unet/model.py), the loss and the metrics   *)
(* (utils/metrics.py) and the datasets live outside train.py; they are     *)
(* modelled from their contracts in the specification (sections 3, 4, 6).  *)
(* The library objects train() builds (GradScaler, OneCycleLR, AdamW,      *)
(* tqdm, no_grad) are modelled by their documented behaviour at the call   *)
(* sites of train.py.                                                      *)
(***************************************************************************)
EXTENDS Integers, Sequences, FiniteSets, TLC

\* ------------------------------------------------------------------ bounds
MaxBatches == 2
MaxEpochs == 2

\* --------------------------------------------------------- library defaults
\* torch.amp.GradScaler(): init_scale = 2.0**16, backoff_factor = 0.5,
\* growth_factor = 2.0, growth_interval = 2000.  The scale is kept as its
\* exponent: backoff subtracts one, growth adds one.
InitScaleExp == 16
GrowthInterval == 2000

VARIABLES
    \* environment and configuration
    N_EPOCHS,      \* utils.constants.N_EPOCHS
    nTrain,        \* len(train_loader)
    valData,       \* the batches val_loader delivers, in order (shuffle=False)
    testData,      \* the batches test_loader delivers, in order (shuffle=False)
    cuda,          \* whether CUDA is available (GradScaler disables itself if not)
    \* orchestrator
    pc,            \* position in train()
    crashed,       \* an exception has propagated out of train()
    epoch,         \* loop variable of line 125
    train_hist, val_hist, test_hist,
    console,       \* what has been written to the terminal, in order
    printed,       \* the numbers of the last summary printed
    saves,         \* completed torch.save calls
    \* model, optimizer, scaler, scheduler
    params,        \* model parameters: number of optimizer updates applied, or NaN
    bnStats,       \* normalisation running statistics: train-mode forwards seen
    training,      \* model.training
    gradEnabled,   \* torch.is_grad_enabled()
    optSteps,      \* optimizer state (AdamW step count)
    scaler,        \* [scale, growth_tracker]
    scheduler,     \* [total_steps, last_epoch]
    \* runner locals
    inPass,        \* control is inside train_step / eval_step
    i,             \* batches of the current pass already processed
    running,       \* running_loss, running_dice, running_hausdorff
    history,       \* the runner's history dict
    writes,        \* per index, how many times history[...][index] was assigned
    batch,         \* (imgs, masks) of the last batch delivered
    lastForward,   \* the mode in which the last model(imgs) call ran
    postfix        \* per progress bar, the last set_postfix values

vars == <<N_EPOCHS, nTrain, valData, testData, cuda, pc, crashed, epoch,
          train_hist, val_hist, test_hist, console, printed, saves,
          params, bnStats, training, gradEnabled, optSteps, scaler, scheduler,
          inPass, i, running, history, writes, batch, lastForward, postfix>>

envVars == <<N_EPOCHS, nTrain, valData, testData, cuda>>
modelVars == <<params, bnStats, training, optSteps, scaler, scheduler>>
histVars == <<train_hist, val_hist, test_hist>>
localVars == <<running, history, writes, batch, lastForward, postfix, i>>

\* ----------------------------------------------------------------- numbers
NaN == 0 - 1

IsNaN(x) == x = NaN

\* float addition: NaN is absorbing
Add(x, y) == IF IsNaN(x) \/ IsNaN(y) THEN NaN ELSE x + y

RoundHalfEven(a, b) ==
    LET q == a \div b
        r == a % b
    IN  IF 2 * r < b THEN q
        ELSE IF 2 * r > b THEN q + 1
        ELSE IF q % 2 = 0 THEN q ELSE q + 1

\* f"{total / n:.4f}": the quotient in 1e-4 units, "nan" for NaN (0/0 in numpy)
Fmt4(total, n) ==
    IF n = 0 \/ IsNaN(total) THEN NaN ELSE RoundHalfEven(total, 10 * n)

RECURSIVE SumSeq(_)
SumSeq(s) == IF s = <<>> THEN 0 ELSE Add(s[1], SumSeq(Tail(s)))

\* ndarray.mean() printed with ":.4f"
MeanFmt(s) == Fmt4(SumSeq(s), Len(s))

Zeros(n) == [k \in 1..n |-> 0]

\* ------------------------------------------------------------ collaborators
TrainPayloads == {"plain", "big", "nan"}
EvalPayloads == {"plain", "nan"}

SeqsUpTo(S, n) == UNION {[1..k -> S] : k \in 0..n}

\* model(imgs): prediction quality 0..3, or NaN once the parameters are NaN.
\* In training mode normalisation uses batch statistics; in evaluation mode
\* it uses the running statistics.
Forward(p, bn, mode) ==
    IF IsNaN(p) THEN NaN
    ELSE IF mode THEN p % 4
    ELSE (p + bn) % 4

\* a train-mode forward updates the running statistics
ForwardStats(bn, mode) == IF mode THEN bn + 1 ELSE bn

\* criterion(preds, masks)["combined"].item()
Criterion(q, payload) ==
    IF IsNaN(q) \/ payload = "nan" THEN NaN ELSE 69315 - 12345 * q

\* dice_score(preds, masks), in [0, 1]
dice_score(q, payload) ==
    IF IsNaN(q) \/ payload = "nan" THEN NaN
    ELSE IF q = 3 THEN 100000 ELSE 33333 * q

\* hausdorff_distance(preds, masks), >= 0
hausdorff_distance(q, payload) ==
    IF IsNaN(q) \/ payload = "nan" THEN NaN ELSE 250000 * (3 - q)

\* whether the scaled gradients of this batch hold inf or NaN
GradsNonFinite(lossv, payload, sc) ==
    IsNaN(lossv) \/ (payload = "big" /\ sc.scale >= InitScaleExp)


\* ------------------------------------------------------- runner operations
Descs == {"Training", "Validating", "Testing"}

\* mutant of FreshRunning: the accumulators carried over from the previous pass
StaleRunning == running

\* running_loss = running_dice = running_hausdorff = 0.0
FreshRunning == [loss |-> 0, dice |-> 0, hausdorff |-> 0]

\* {"loss": np.zeros(n), "dice": np.zeros(n), "hausdorff": np.zeros(n)}
FreshHistory(n) == [loss |-> Zeros(n), dice |-> Zeros(n), hausdorff |-> Zeros(n)]

NoPostfix == [shown |-> FALSE, loss |-> 0, dice |-> 0]

\* mutant of ModelTrain: train_step without its model.train() call
ModelTrainMissing == training

\* model.train() / model.eval(): the value of model.training afterwards
ModelTrain == TRUE

ModelEval == FALSE

\* with torch.no_grad(): the value of torch.is_grad_enabled() inside the block
NoGrad == FALSE

\* mutant of Record: the index taken as 1-based, one slot too far
RecordShifted(h, idx, lossv, dicev, hausv) ==
    [loss |-> [h.loss EXCEPT ![idx + 2] = lossv],
     dice |-> [h.dice EXCEPT ![idx + 2] = dicev],
     hausdorff |-> [h.hausdorff EXCEPT ![idx + 2] = hausv]]

\* history[...][idx] = value, for the three sequences (idx is 0-based)
Record(h, idx, lossv, dicev, hausv) ==
    [loss |-> [h.loss EXCEPT ![idx + 1] = lossv],
     dice |-> [h.dice EXCEPT ![idx + 1] = dicev],
     hausdorff |-> [h.hausdorff EXCEPT ![idx + 1] = hausv]]

\* running_x += history[x][idx]
Accumulate(r, h, idx) ==
    [loss |-> Add(r.loss, h.loss[idx + 1]),
     dice |-> Add(r.dice, h.dice[idx + 1]),
     hausdorff |-> Add(r.hausdorff, h.hausdorff[idx + 1])]

\* progress.set_postfix({"loss": f"{running_loss / (i + 1):.4f}", "dice": ...})
SetPostfix(r, idx) ==
    [shown |-> TRUE, loss |-> Fmt4(r.loss, idx + 1), dice |-> Fmt4(r.dice, idx + 1)]

\* mutant of StepSkipped: optimizer.step() called directly, never skipped
StepNeverSkipped(lossv, payload, sc) == FALSE

\* scaler.step(optimizer): whether optimizer.step() is skipped.  A disabled
\* scaler (no CUDA) calls optimizer.step() unconditionally.
StepSkipped(lossv, payload, sc) == cuda /\ GradsNonFinite(lossv, payload, sc)

\* optimizer.step() on the parameters: NaN gradients give NaN parameters
OptimizerStep(p, lossv) == IF IsNaN(p) \/ IsNaN(lossv) THEN NaN ELSE p + 1

\* scaler.update(): back off after a skipped step, grow after
\* GrowthInterval consecutive unskipped ones; nothing when disabled
ScalerUpdate(sc, skipped) ==
    IF ~cuda THEN sc
    ELSE IF skipped THEN [scale |-> sc.scale - 1, growth_tracker |-> 0]
    ELSE IF sc.growth_tracker + 1 = GrowthInterval
         THEN [scale |-> sc.scale + 1, growth_tracker |-> 0]
         ELSE [sc EXCEPT !.growth_tracker = @ + 1]

\* mutant of SchedulerStep: the scheduler held back when the optimizer step
\* was skipped
SchedulerStepUnlessSkipped(s, skipped) ==
    IF skipped THEN s ELSE [s EXCEPT !.last_epoch = @ + 1]

\* scheduler.step() if scheduler else None
SchedulerStep(s, skipped) == [s EXCEPT !.last_epoch = @ + 1]

\* OneCycleLR.get_lr raises ValueError once stepped past total_steps
SchedulerExhausted(s) == s.last_epoch > s.total_steps

\* mutant of TotalSteps: the schedule sized for one epoch
TotalStepsOneEpoch == nTrain

\* OneCycleLR(optimizer, max_lr, steps_per_epoch=len(train_loader), epochs=N_EPOCHS)
TotalSteps == nTrain * N_EPOCHS

\* the desc of the progress bar of the pass in progress
Desc == CASE pc = "train" -> "Training"
          [] pc = "val" -> "Validating"
          [] OTHER -> "Testing"

\* the dataloader eval_step was called with
EvalData == IF pc = "val" THEN valData ELSE testData

\* ------------------------------------------------------------------- Init
Init ==
    /\ N_EPOCHS \in 1..MaxEpochs
    /\ nTrain \in 0..MaxBatches
    /\ valData \in SeqsUpTo(EvalPayloads, MaxBatches)
    /\ testData \in SeqsUpTo(EvalPayloads, MaxBatches)
    /\ cuda \in BOOLEAN
    /\ pc = "construct"
    /\ crashed = FALSE
    /\ epoch = 0
    /\ train_hist = FreshHistory(0)
    /\ val_hist = FreshHistory(0)
    /\ test_hist = FreshHistory(0)
    /\ console = <<>>
    /\ printed = [train_loss |-> 0, train_dice |-> 0, val_loss |-> 0, val_dice |-> 0,
                  test_loss |-> 0, test_dice |-> 0]
    /\ saves = 0
    /\ params = 0
    /\ bnStats = 0
    /\ training = TRUE
    /\ gradEnabled = TRUE
    /\ optSteps = 0
    /\ scaler = [scale |-> InitScaleExp, growth_tracker |-> 0]
    /\ scheduler = [total_steps |-> 0, last_epoch |-> 0]
    /\ inPass = FALSE
    /\ i = 0
    /\ running = [loss |-> 0, dice |-> 0, hausdorff |-> 0]
    /\ history = FreshHistory(0)
    /\ writes = <<>>
    /\ batch = "none"
    /\ lastForward = [runner |-> "none", training |-> TRUE, grad |-> TRUE]
    /\ postfix = [d \in Descs |-> NoPostfix]

\* ------------------------------------------------------------ orchestrator
\* lines 103-123: seed, datasets, loaders, model, optimizer, scheduler,
\* criterion, scaler.  OneCycleLR raises ValueError for steps_per_epoch <= 0.
Construct ==
    /\ pc = "construct" /\ ~crashed
    /\ console' = Append(console, "device")
    /\ IF nTrain <= 0 \/ N_EPOCHS <= 0
       THEN /\ crashed' = TRUE
            /\ UNCHANGED <<pc, scheduler>>
       ELSE /\ pc' = "loop"
            /\ scheduler' = [total_steps |-> TotalSteps, last_epoch |-> 0]
            /\ UNCHANGED crashed
    /\ UNCHANGED <<envVars, epoch, histVars, printed, saves, params, bnStats,
                   training, gradEnabled, optSteps, scaler, inPass, localVars>>

\* any other exception while constructing (missing dataset directory, ...)
ConstructRaise ==
    /\ pc = "construct" /\ ~crashed
    /\ crashed' = TRUE
    /\ UNCHANGED <<envVars, pc, epoch, histVars, console, printed, saves,
                   modelVars, gradEnabled, inPass, localVars>>

\* mutant of LoopContinues: one epoch too many
LoopOffByOne == epoch <= N_EPOCHS

\* line 125: the loop test
LoopContinues == epoch < N_EPOCHS

\* lines 125-126 and 139: enter the next epoch, or leave the loop
EpochBegin ==
    /\ pc = "loop" /\ ~crashed
    /\ IF LoopContinues
       THEN /\ console' = Append(console, "Epoch")
            /\ pc' = "train"
       ELSE /\ console' = Append(console, "Training complete")
            /\ pc' = "test"
    /\ UNCHANGED <<envVars, crashed, epoch, histVars, printed, saves, modelVars,
                   gradEnabled, inPass, localVars>>

\* ------------------------------------------------------------ Train Runner
\* lines 34-41: accumulators, history, progress bar, model.train()
TrainStart ==
    /\ pc = "train" /\ ~inPass /\ ~crashed
    /\ inPass' = TRUE
    /\ i' = 0
    /\ running' = FreshRunning
    /\ history' = FreshHistory(nTrain)
    /\ writes' = Zeros(nTrain)
    /\ console' = Append(console, "Training")
    /\ postfix' = [postfix EXCEPT !["Training"] = NoPostfix]
    /\ training' = ModelTrain
    /\ UNCHANGED <<envVars, pc, crashed, epoch, histVars, printed, saves, params,
                   bnStats, gradEnabled, optSteps, scaler, scheduler, batch,
                   lastForward>>

\* lines 42-66: one iteration of the loop over the (shuffled, augmented)
\* training batches
TrainBatch ==
    /\ pc = "train" /\ inPass /\ ~crashed /\ i < nTrain
    /\ \E payload \in TrainPayloads :
        LET q == Forward(params, bnStats, training)
            lossv == Criterion(q, payload)
            skipped == StepSkipped(lossv, payload, scaler)
            sched == SchedulerStep(scheduler, skipped)
            h == Record(history, i, lossv, dice_score(q, payload),
                        hausdorff_distance(q, payload))
            r == Accumulate(running, h, i)
        IN  /\ batch' = payload
            /\ lastForward' = [runner |-> "train", training |-> training,
                               grad |-> gradEnabled]
            /\ bnStats' = ForwardStats(bnStats, training)
            /\ params' = IF skipped THEN params ELSE OptimizerStep(params, lossv)
            /\ optSteps' = IF skipped THEN optSteps ELSE optSteps + 1
            /\ scaler' = ScalerUpdate(scaler, skipped)
            /\ scheduler' = sched
            /\ IF SchedulerExhausted(sched)
               THEN /\ crashed' = TRUE
                    /\ UNCHANGED <<history, writes, running, postfix, i>>
               ELSE /\ history' = h
                    /\ writes' = [writes EXCEPT ![i + 1] = @ + 1]
                    /\ running' = r
                    /\ postfix' = [postfix EXCEPT !["Training"] = SetPostfix(r, i)]
                    /\ i' = i + 1
                    /\ UNCHANGED crashed
    /\ UNCHANGED <<envVars, pc, epoch, histVars, console, printed, saves,
                   training, gradEnabled, inPass>>

\* an exception raised by line 43 (device transfer) or by the forward pass,
\* before anything of the iteration has taken effect
TrainRaise ==
    /\ pc = "train" /\ inPass /\ ~crashed /\ i < nTrain
    /\ crashed' = TRUE
    /\ UNCHANGED <<envVars, pc, epoch, histVars, console, printed, saves,
                   modelVars, gradEnabled, inPass, localVars>>

\* line 68: return history; line 128: train_hist = ...
TrainReturn ==
    /\ pc = "train" /\ inPass /\ ~crashed /\ i = nTrain
    /\ train_hist' = history
    /\ inPass' = FALSE
    /\ pc' = "val"
    /\ UNCHANGED <<envVars, crashed, epoch, val_hist, test_hist, console, printed,
                   saves, modelVars, gradEnabled, localVars>>

\* ------------------------------------------------------------- Eval Runner
\* lines 72-80: accumulators, history, progress bar, model.eval(), no_grad
EvalStart ==
    /\ pc \in {"val", "test"} /\ ~inPass /\ ~crashed
    /\ inPass' = TRUE
    /\ i' = 0
    /\ running' = FreshRunning
    /\ history' = FreshHistory(Len(EvalData))
    /\ writes' = Zeros(Len(EvalData))
    /\ console' = Append(console, Desc)
    /\ postfix' = [postfix EXCEPT ![Desc] = NoPostfix]
    /\ training' = ModelEval
    /\ gradEnabled' = NoGrad
    /\ UNCHANGED <<envVars, pc, crashed, epoch, histVars, printed, saves, params,
                   bnStats, optSteps, scaler, scheduler, batch, lastForward>>

\* mutant of EvalEffects: the scheduler line of train_step copied into eval_step
EvalEffectsStepping ==
    /\ bnStats' = ForwardStats(bnStats, training)
    /\ scheduler' = [scheduler EXCEPT !.last_epoch = @ + 1]
    /\ UNCHANGED <<params, optSteps, scaler>>

\* mutant of EvalEffects: the optimizer lines of train_step copied into eval_step
EvalEffectsUpdating ==
    /\ bnStats' = ForwardStats(bnStats, training)
    /\ params' = OptimizerStep(params, 0)
    /\ optSteps' = optSteps + 1
    /\ UNCHANGED <<scaler, scheduler>>

\* what one iteration of eval_step does to the model, the optimizer, the
\* scaler and the scheduler: it touches none of them beyond the forward pass
EvalEffects ==
    /\ bnStats' = ForwardStats(bnStats, training)
    /\ UNCHANGED <<params, optSteps, scaler, scheduler>>

\* lines 81-97: one iteration of the loop over the batches, in loader order
EvalBatch ==
    /\ pc \in {"val", "test"} /\ inPass /\ ~crashed /\ i < Len(EvalData)
    /\ LET payload == EvalData[i + 1]
           q == Forward(params, bnStats, training)
           h == Record(history, i, Criterion(q, payload), dice_score(q, payload),
                       hausdorff_distance(q, payload))
           r == Accumulate(running, h, i)
       IN  /\ batch' = payload
           /\ lastForward' = [runner |-> "eval", training |-> training,
                              grad |-> gradEnabled]
           /\ history' = h
           /\ writes' = [writes EXCEPT ![i + 1] = @ + 1]
           /\ running' = r
           /\ postfix' = [postfix EXCEPT ![Desc] = SetPostfix(r, i)]
           /\ i' = i + 1
    /\ EvalEffects
    /\ UNCHANGED <<envVars, pc, crashed, epoch, histVars, console, printed, saves,
                   training, gradEnabled, inPass>>

\* an exception inside the loop: it leaves the no_grad block, which restores
\* gradient tracking, and propagates
EvalRaise ==
    /\ pc \in {"val", "test"} /\ inPass /\ ~crashed /\ i < Len(EvalData)
    /\ crashed' = TRUE
    /\ gradEnabled' = TRUE
    /\ UNCHANGED <<envVars, pc, epoch, histVars, console, printed, saves,
                   modelVars, inPass, localVars>>

\* line 99: return history (leaving the no_grad block); lines 129 and 141
EvalReturn ==
    /\ pc \in {"val", "test"} /\ inPass /\ ~crashed /\ i = Len(EvalData)
    /\ gradEnabled' = TRUE
    /\ inPass' = FALSE
    /\ IF pc = "val"
       THEN /\ val_hist' = history
            /\ pc' = "summary"
            /\ UNCHANGED test_hist
       ELSE /\ test_hist' = history
            /\ pc' = "test_summary"
            /\ UNCHANGED val_hist
    /\ UNCHANGED <<envVars, crashed, epoch, train_hist, console, printed, saves,
                   modelVars, localVars>>

\* --------------------------------------------------- orchestrator, continued
\* lines 131-138: the epoch summary; then the next iteration of line 125
Summary ==
    /\ pc = "summary" /\ ~crashed
    /\ printed' = [printed EXCEPT !.train_loss = MeanFmt(train_hist.loss),
                                  !.train_dice = MeanFmt(train_hist.dice),
                                  !.val_loss = MeanFmt(val_hist.loss),
                                  !.val_dice = MeanFmt(val_hist.dice)]
    /\ console' = Append(console, "summary")
    /\ epoch' = epoch + 1
    /\ pc' = "loop"
    /\ UNCHANGED <<envVars, crashed, histVars, saves, modelVars, gradEnabled,
                   inPass, localVars>>

\* lines 142-144: the test summary
TestSummary ==
    /\ pc = "test_summary" /\ ~crashed
    /\ printed' = [printed EXCEPT !.test_loss = MeanFmt(test_hist.loss),
                                  !.test_dice = MeanFmt(test_hist.dice)]
    /\ console' = Append(console, "test summary")
    /\ pc' = "save"
    /\ UNCHANGED <<envVars, crashed, epoch, histVars, saves, modelVars,
                   gradEnabled, inPass, localVars>>

\* mutant of SavePoint: the save moved into a finally block
SavePointFinally == pc = "save" \/ (crashed /\ saves = 0)

\* where train() saves the parameters
SavePoint == pc = "save" /\ ~crashed

\* lines 146-147: os.makedirs, torch.save
Save ==
    /\ SavePoint
    /\ saves' = saves + 1
    /\ pc' = "done"
    /\ UNCHANGED <<envVars, crashed, epoch, histVars, console, printed, modelVars,
                   gradEnabled, inPass, localVars>>

\* line 146 or 147 raises (no permission, disk full): nothing was persisted
SaveRaise ==
    /\ pc = "save" /\ ~crashed
    /\ crashed' = TRUE
    /\ UNCHANGED <<envVars, pc, epoch, histVars, console, printed, saves,
                   modelVars, gradEnabled, inPass, localVars>>

Next ==
    \/ Construct
    \/ ConstructRaise
    \/ EpochBegin
    \/ TrainStart
    \/ TrainBatch
    \/ TrainRaise
    \/ TrainReturn
    \/ EvalStart
    \/ EvalBatch
    \/ EvalRaise
    \/ EvalReturn
    \/ Summary
    \/ TestSummary
    \/ Save
    \/ SaveRaise

Spec == Init /\ [][Next]_vars

\* ------------------------------------------------------------------ claims
IsPrefix(s, t) == Len(s) <= Len(t) /\ SubSeq(t, 1, Len(s)) = s

RECURSIVE EpochLines(_)
EpochLines(n) ==
    IF n = 0 THEN <<>>
    ELSE <<"Epoch", "Training", "Validating", "summary">> \o EpochLines(n - 1)

\* what a complete run of n epochs writes to the terminal
ExpectedConsole(n) ==
    <<"device">> \o EpochLines(n)
                 \o <<"Training complete", "Testing", "test summary">>

\* C1: the terminal shows, in order, N_EPOCHS times (training bar, validation
\* bar, epoch summary), then one test bar and one test summary; a run that
\* ends normally has shown all of it and saved exactly once; the save happens
\* only after the test pass has returned and its summary was printed, and
\* nothing runs after it.
C1_PhaseOrder ==
    /\ IsPrefix(console, ExpectedConsole(N_EPOCHS))
    /\ saves <= 1
    /\ saves = 1 =>
          /\ console = ExpectedConsole(N_EPOCHS)
          /\ pc = "done" /\ ~inPass /\ test_hist = history
    /\ pc = "done" => saves = 1 /\ epoch = N_EPOCHS

C1_Witness ==
    pc = "done" /\ N_EPOCHS = 2 /\ saves = 1 /\ nTrain = 2 /\ Len(console) = 12

\* C2: inside train_step the scheduler's step counter moves in lockstep with
\* the batch index: unchanged on entry (index 0) and on return (index n), and
\* advanced by exactly one whenever a batch is processed, so a returned pass
\* over n batches has advanced it by exactly n.
C2_SchedulerPerBatch ==
    [][(pc = "train" /\ ~crashed') =>
         IF ~inPass /\ inPass'
         THEN i' = 0 /\ scheduler' = scheduler
         ELSE IF inPass /\ ~inPass'
         THEN i = nTrain /\ scheduler' = scheduler
         ELSE scheduler'.last_epoch - i' = scheduler.last_epoch - i]_vars

C2_Witness ==
    /\ pc = "val" /\ ~inPass /\ epoch = 1 /\ nTrain = 2
    /\ scheduler.last_epoch = 4
    /\ cuda /\ scaler.scale < InitScaleExp

frame == <<params, bnStats, optSteps, scaler, scheduler>>

\* C3: no step taken while control is in the validation or the test call
\* changes the model parameters (and buffers), the optimizer state, the
\* scaler state or the scheduler state; once constructed, they change only
\* inside train_step.
C3_EvalFrame ==
    [][/\ pc \in {"val", "test"} => (frame' = frame)
       /\ (frame' # frame) => (pc = "construct" \/ (pc = "train" /\ inPass))]_vars

C3_Witness ==
    /\ pc = "summary" /\ epoch = 1 /\ Len(val_hist.loss) = 2
    /\ params = 4 /\ scheduler.last_epoch = 4

\* the number of batches of the pass in progress
PassLength == IF pc = "train" THEN nTrain ELSE Len(EvalData)

HistoryShape(h, n) ==
    Len(h.loss) = n /\ Len(h.dice) = n /\ Len(h.hausdorff) = n

\* what C4 says of a single state
HistoryState ==
    /\ (inPass /\ pc \in {"train", "val", "test"}) =>
          /\ HistoryShape(history, PassLength)
          /\ i <= PassLength
          /\ writes = [k \in 1..PassLength |-> IF k <= i THEN 1 ELSE 0]
          /\ \A k \in (i + 1)..PassLength :
                history.loss[k] = 0 /\ history.dice[k] = 0 /\ history.hausdorff[k] = 0
    /\ (inPass /\ pc \in {"val", "test"}) =>
          \A k \in 1..i :
             LET q == Forward(params, bnStats, FALSE)
             IN  /\ history.loss[k] = Criterion(q, EvalData[k])
                 /\ history.dice[k] = dice_score(q, EvalData[k])
                 /\ history.hausdorff[k] = hausdorff_distance(q, EvalData[k])
    /\ (pc = "train" /\ inPass /\ i >= 1 /\ ~crashed) =>
          \E q \in {NaN} \cup 0..3 :
             /\ history.loss[i] = Criterion(q, batch)
             /\ history.dice[i] = dice_score(q, batch)
             /\ history.hausdorff[i] = hausdorff_distance(q, batch)
    /\ (pc = "val" /\ ~inPass) =>
          /\ train_hist = history /\ HistoryShape(train_hist, nTrain)
          /\ writes = [k \in 1..nTrain |-> 1]
    /\ pc = "summary" =>
          /\ val_hist = history /\ HistoryShape(val_hist, Len(valData))
          /\ HistoryShape(train_hist, nTrain)
          /\ writes = [k \in 1..Len(valData) |-> 1]
    /\ pc = "test_summary" =>
          /\ test_hist = history /\ HistoryShape(test_hist, Len(testData))
          /\ writes = [k \in 1..Len(testData) |-> 1]

\* what C4 says of a single step inside a pass: the entries already written
\* keep their values
HistoryStep ==
    (inPass /\ inPass' /\ pc' = pc) =>
        \A k \in 1..i :
            /\ history'.loss[k] = history.loss[k]
            /\ history'.dice[k] = history.dice[k]
            /\ history'.hausdorff[k] = history.hausdorff[k]

\* C4: during a pass the three sequences have the length of the input; the
\* indices below the batch index have been written exactly once and the
\* others not at all; in an eval pass entry k holds the loss and the metrics
\* of the k-th batch of the loader, in a train pass the entry at the last
\* index written holds those of the batch just delivered, and no later
\* iteration changes an entry already written; the history a runner returns
\* has every index written exactly once.
C4_HistoryComplete == []HistoryState /\ [][HistoryStep]_vars

C4_Witness ==
    /\ pc = "summary" /\ Len(val_hist.loss) = 2 /\ Len(train_hist.loss) = 2
    /\ train_hist.dice[1] = 0 /\ train_hist.dice[2] > 0
    /\ val_hist.hausdorff[1] = 0 /\ IsNaN(val_hist.loss[2])

\* the mean of the first n entries of a history sequence, as ":.4f" shows it
PrefixMean(h, n) == Fmt4(SumSeq(SubSeq(h, 1, n)), n)

\* C5: in both runners, once i batches have been processed the progress bar
\* shows, for the loss and for the overlap metric, the sum of the first i
\* history entries divided by i; what the bar of a completed pass shows last
\* is the mean the orchestrator then prints for that pass.
C5_RunningMean ==
    /\ (inPass /\ pc \in {"train", "val", "test"} /\ i >= 1) =>
          /\ postfix[Desc].shown
          /\ postfix[Desc].loss = PrefixMean(history.loss, i)
          /\ postfix[Desc].dice = PrefixMean(history.dice, i)
    /\ (pc = "loop" /\ epoch >= 1) =>
          /\ printed.train_loss = postfix["Training"].loss
          /\ printed.train_dice = postfix["Training"].dice
          /\ Len(valData) >= 1 =>
                /\ printed.val_loss = postfix["Validating"].loss
                /\ printed.val_dice = postfix["Validating"].dice
    /\ (pc \in {"save", "done"} /\ Len(testData) >= 1) =>
          /\ printed.test_loss = postfix["Testing"].loss
          /\ printed.test_dice = postfix["Testing"].dice

C5_Witness ==
    /\ pc = "loop" /\ epoch = 2 /\ nTrain = 2 /\ Len(valData) = 2
    /\ train_hist.loss[1] # train_hist.loss[2] /\ ~IsNaN(printed.train_loss)
    /\ 10 * printed.train_loss * 2 # train_hist.loss[1] + train_hist.loss[2]
    /\ printed.train_loss = postfix["Training"].loss
    /\ printed.val_dice = postfix["Validating"].dice /\ ~IsNaN(printed.val_dice)

\* C6: the last validation pass and the test pass are two eval_step calls in
\* immediate succession on an unchanged model; when both loaders deliver the
\* same batches the two histories are identical.
C6_EvalIdempotent ==
    (pc \in {"test_summary", "save", "done"} /\ valData = testData) =>
        test_hist = val_hist

C6_Witness ==
    /\ pc = "test_summary" /\ valData = testData /\ valData = <<"plain", "nan">>
    /\ params > 0 /\ test_hist = val_hist /\ ~IsNaN(test_hist.loss[1])

\* C7: once an exception has propagated nothing further happens (no retry,
\* no later phase), and a run that raised has persisted nothing.
C7_FailureStops ==
    /\ [](crashed => saves = 0)
    /\ [][crashed => UNCHANGED vars]_vars

C7_Witness ==
    /\ crashed /\ pc = "val" /\ inPass /\ i = 1 /\ epoch = 1 /\ saves = 0
    /\ params > 0

\* the loss of the batch a train step is about to process, and whether the
\* enabled scaler finds its gradients non-finite
StepLoss == Criterion(Forward(params, bnStats, training), batch')

Overflowed == cuda /\ GradsNonFinite(StepLoss, batch', scaler)

\* C8: a training iteration whose gradients the scaler finds non-finite
\* leaves the parameters and the optimizer state unchanged and lowers the
\* scale, yet raises nothing: the scheduler advances by one, the loss and the
\* metrics of the batch are recorded at its index, and the pass goes on.
C8_OverflowAbsorbed ==
    [][(pc = "train" /\ inPass /\ ~crashed /\ bnStats' # bnStats /\ Overflowed) =>
         /\ params' = params /\ optSteps' = optSteps
         /\ scaler'.scale < scaler.scale
         /\ scheduler'.last_epoch = scheduler.last_epoch + 1
         /\ ~crashed' /\ inPass' /\ pc' = "train" /\ i' = i + 1
         /\ writes'[i'] = 1
         /\ history'.loss[i'] = StepLoss
         /\ history'.dice[i'] = dice_score(Forward(params, bnStats, training), batch')
         /\ history'.hausdorff[i'] =
               hausdorff_distance(Forward(params, bnStats, training), batch')]_vars

C8_Witness ==
    /\ pc = "train" /\ inPass /\ ~crashed /\ i = 2 /\ cuda
    /\ batch = "big" /\ scaler.scale = InitScaleExp - 1 /\ params = 1
    /\ scheduler.last_epoch = 2 /\ history.loss[2] > 0 /\ writes[2] = 1

\* training batches processed so far in the whole run
BatchesTrained ==
    CASE pc \in {"construct", "loop"} -> epoch * nTrain
      [] pc = "train" -> epoch * nTrain + (IF inPass THEN i ELSE 0)
      [] pc \in {"val", "summary"} -> (epoch + 1) * nTrain
      [] OTHER -> N_EPOCHS * nTrain

\* C9: the scheduler has been stepped exactly once per training batch
\* processed so far in the run, which never exceeds the schedule's total
\* (batches per pass times epochs) and reaches it exactly when the last
\* training pass returns; validation and test passes add nothing.
C9_SchedulerBudget ==
    /\ scheduler.last_epoch <= scheduler.total_steps
    /\ (pc # "construct") => scheduler.total_steps = nTrain * N_EPOCHS
    /\ ~crashed => scheduler.last_epoch = BatchesTrained
    /\ (pc \in {"val", "summary"} /\ epoch = N_EPOCHS - 1) =>
          scheduler.last_epoch = scheduler.total_steps
    /\ pc \in {"test", "test_summary", "save", "done"} =>
          scheduler.last_epoch = scheduler.total_steps

C9_Witness ==
    /\ pc = "val" /\ ~inPass /\ epoch = 1 /\ N_EPOCHS = 2 /\ nTrain = 2
    /\ scheduler.last_epoch = 4 /\ scheduler.total_steps = 4

\* C10: every forward pass of train_step ran in training mode, every forward
\* pass of eval_step in evaluation mode with gradient tracking off; the mode
\* and the gradient switch stay so for the whole pass.
C10_ModePerRunner ==
    /\ lastForward.runner = "train" => lastForward.training /\ lastForward.grad
    /\ lastForward.runner = "eval" => ~lastForward.training /\ ~lastForward.grad
    /\ (pc = "train" /\ inPass) => training /\ gradEnabled
    /\ (pc \in {"val", "test"} /\ inPass /\ ~crashed) => ~training /\ ~gradEnabled

C10_Witness ==
    /\ pc = "train" /\ inPass /\ epoch = 1 /\ i = 1
    /\ lastForward = [runner |-> "train", training |-> TRUE, grad |-> TRUE]

============================================================================
